---- MODULE Spec2Model ----
(***************************************************************************)
(* Model of srclib's "coverage" command (cli/coverage_cmd.go): the tree    *)
(* walk that builds the file inventory, the loader of the per-unit graph   *)
(* artifacts, the fold of references and definitions into the inventory    *)
(* and the per-language reduction, together with the line counter          *)
(* numLines/stripComments/isNotBlank.                                      *)
(*                                                                         *)
(* Byte strings are TLA+ strings; float64 values are modelled exactly as   *)
(* records (a finite quotient n/d, +Inf or NaN).                           *)
(***************************************************************************)
EXTENDS Integers, Sequences, FiniteSets, TLC

VARIABLES
    \* the line counter on its own
    content,        \* the bytes handed to numLines
    linesRet,       \* <<>> before the call, <<n>> once numLines has returned n
    \* the environment of one coverage(repo) call
    RootDir,        \* repo.RootDir, an absolute path
    fs,             \* the file tree: absolute path -> node
    rules,          \* mf.Rules, the plan's rules in order
    bdfs,           \* the build-data file system: artifact path -> file state
    \* coverage(repo)
    pc,             \* the stage coverage is in
    todo,           \* filepath.Walk: the paths still to be visited, next first
    walkErr,        \* what filepath.Walk returns (coverage drops it)
    codeFileData,   \* relative path -> codeFileDatum
    ruleIdx,        \* index into mf.Rules of the rule being loaded
    visited,        \* targets of the current multi-unit rule already ranged over
    data,           \* the graph.Output items appended so far
    loaded,         \* history: loaded[i] is the artifact path data[i] was read from
    defKeys,        \* the set of normalized definition keys
    warnings,       \* the warnings logged by parseGraphData
    foldItem,       \* index into data of the item being folded
    foldRef,        \* index into item.Refs of the next reference
    validRefs,      \* indices (into item.Refs) appended to validRefs
    stats,          \* language -> langStats
    retCov,         \* the mapping returned: <<>> is nil, <<m>> is m
    retErr,         \* the error returned ("nil" for none)
    \* openLocalRepo
    localRepo,      \* the cached *Repo ("nil" for nil)
    localRepoErr,   \* the cached error ("nil" for nil)
    CacheLocalRepo, \* whether openLocalRepo caches
    openNow,        \* what OpenRepo(".") returns in the current directory
    calls,          \* history: the number of openLocalRepo calls so far
    opens,          \* history: the number of OpenRepo invocations so far
    firstRet,       \* history: <<>> or <<what the first call returned>>
    lastRet,        \* history: <<>> or <<what the last call returned>>
    everUncached    \* history: CacheLocalRepo has been assigned since the start

linesVars == <<content, linesRet>>

envVars == <<RootDir, fs, rules, bdfs>>

covVars == <<pc, todo, walkErr, codeFileData, ruleIdx, visited, data, loaded,
             defKeys, warnings, foldItem, foldRef, validRefs, stats, retCov, retErr>>

repoVars == <<localRepo, localRepoErr, CacheLocalRepo, openNow, calls, opens,
              firstRet, lastRet, everUncached>>

vars == <<linesVars, envVars, covVars, repoVars>>

(***************************************************************************)
(* Bounds                                                                  *)
(***************************************************************************)
MaxContentLen == 4

(***************************************************************************)
(* Byte-string helpers                                                     *)
(***************************************************************************)
\* data[i] for a 1-based index
At(s, i) == SubSeq(s, i, i)

\* data[i:] for a 0-based offset
From(s, off) == SubSeq(s, off + 1, Len(s))

\* data[i:j] for 0-based offsets
Slice(s, i, j) == SubSeq(s, i + 1, j)

Min(S) == CHOOSE x \in S : \A y \in S : x <= y

\* bytes.IndexByte(data[start:], c): offset of the first c relative to start, or -1
IndexByte(s, start, c) ==
    LET hits == {i \in (start + 1)..Len(s) : At(s, i) = c}
    IN  IF hits = {} THEN -1 ELSE Min(hits) - 1 - start

\* unicode.IsSpace on the bytes of the model's alphabet
IsSpace(c) == c \in {" ", "\n", "\t", "\r"}

\* the bytes file contents are built from: an identifier byte, the two
\* whitespace bytes, and the bytes of the comment delimiters
Alphabet == {"a", " ", "\n", "/", "*"}

RECURSIVE Strings(_)
Strings(n) ==
    IF n = 0 THEN {""}
    ELSE LET shorter == Strings(n - 1)
         IN  shorter \cup {s \o c : s \in shorter, c \in Alphabet}

(***************************************************************************)
(* stripComments: text/scanner with comments reported as tokens            *)
(***************************************************************************)
\* Offset of the first non-whitespace byte at or after off (Len(s) when none):
\* the scanner skips white space before each token.
SkipSpace(s, off) ==
    LET rest == {i \in (off + 1)..Len(s) : ~IsSpace(At(s, i))}
    IN  IF rest = {} THEN Len(s) ELSE Min(rest) - 1

\* The token starting at offset p (a non-whitespace byte): its kind and the
\* offset just after it, as Scanner.Scan and Scanner.Pos report them.
ScanToken(s, p) ==
    LET c    == At(s, p + 1)
        nxt  == IF p + 2 <= Len(s) THEN At(s, p + 2) ELSE ""
    IN  IF c = "/" /\ nxt = "/"
        THEN \* line comment: up to, not including, the newline
             LET nl == IndexByte(s, p + 2, "\n")
             IN  [tok |-> "Comment", end |-> IF nl = -1 THEN Len(s) ELSE p + 2 + nl]
        ELSE IF c = "/" /\ nxt = "*"
        THEN \* general comment: through the first "*/" after the opening
             \* "/*", or to the end of input (error handler is a no-op)
             LET closers == {k \in (p + 3)..(Len(s) - 1) :
                                At(s, k) = "*" /\ At(s, k + 1) = "/"}
             IN  [tok |-> "Comment",
                  end |-> IF closers = {} THEN Len(s) ELSE Min(closers) + 1]
        ELSE IF c = "a"
        THEN \* identifier: the maximal run of identifier bytes
             LET stops == {i \in (p + 2)..Len(s) : At(s, i) # "a"}
             IN  [tok |-> "Ident",
                  end |-> IF stops = {} THEN Len(s) ELSE Min(stops) - 1]
        ELSE [tok |-> "Char", end |-> p + 1]

\* The loop of stripComments from `offset` on: what is appended to ret.
RECURSIVE StripFrom(_, _)
StripFrom(s, offset) ==
    LET p == SkipSpace(s, offset)
    IN  IF p = Len(s)
        THEN From(s, offset)                     \* tok = EOF: append data[offset:]
        ELSE LET t == ScanToken(s, p)
             IN  IF t.tok = "Comment"
                 THEN Slice(s, offset, p) \o StripFrom(s, t.end)
                 ELSE Slice(s, offset, t.end) \o StripFrom(s, t.end)

stripComments(s) == StripFrom(s, 0)

(***************************************************************************)
(* numLines and isNotBlank                                                 *)
(***************************************************************************)
isNotBlank(l) == \E i \in 1..Len(l) : ~IsSpace(At(l, i))

\* the for loop of numLines: pos is relative to start
RECURSIVE CountLoop(_, _, _, _)
CountLoop(s, start, pos, count) ==
    IF pos # -1 /\ start < Len(s)
    THEN LET l      == Slice(s, start, start + pos + 1)
             start2 == start + pos + 1
         IN  CountLoop(s, start2, IndexByte(s, start2, "\n"),
                       IF isNotBlank(l) THEN count + 1 ELSE count)
    ELSE count

numLines(raw) ==
    LET s == stripComments(raw)
    IN  IF Len(s) = 0 THEN 0
        ELSE CountLoop(s, 0, IndexByte(s, 0, "\n"), 1)

(***************************************************************************)
(* Paths (path/filepath on a platform whose separator is '/')              *)
(***************************************************************************)
Max(S) == CHOOSE x \in S : \A y \in S : x >= y

\* strings.HasPrefix
HasPrefix(s, prefix) ==
    Len(s) >= Len(prefix) /\ SubSeq(s, 1, Len(prefix)) = prefix

\* filepath.IsAbs
IsAbs(path) == HasPrefix(path, "/")

\* filepath.Join(dir, name) for clean operands
Join(dir, name) == dir \o "/" \o name

\* filepath.Rel(root, path) for a path at or below root: "." for the root
\* itself, otherwise the path with the root and one separator removed
Rel(root, path) ==
    IF path = root THEN "." ELSE From(path, Len(root) + 1)

\* filepath.ToSlash: replaces filepath.Separator by '/'; the separator is '/'
ToSlash(path) == path

\* os.FileInfo.Name(): the last element of the path
BaseName(path) ==
    LET seps == {i \in 1..Len(path) : At(path, i) = "/"}
    IN  IF seps = {} THEN path ELSE From(path, Max(seps))

\* filepath.Ext: the suffix beginning at the final dot of the last element
Ext(path) ==
    LET name == BaseName(path)
        dots == {i \in 1..Len(name) : At(name, i) = "."}
    IN  IF dots = {} THEN "" ELSE From(name, Max(dots) - 1)

\* langToExts inverted by init()
extToLang ==
    [e \in {".go", ".java", ".py", ".rb", ".cpp", ".ts", ".cs", ".js", ".php", ".m"} |->
        CASE e = ".go"   -> "Go"
          [] e = ".java" -> "Java"
          [] e = ".py"   -> "Python"
          [] e = ".rb"   -> "Ruby"
          [] e = ".cpp"  -> "C++"
          [] e = ".ts"   -> "TypeScript"
          [] e = ".cs"   -> "C#"
          [] e = ".js"   -> "JavaScript"
          [] e = ".php"  -> "PHP"
          [] e = ".m"    -> "Objective-C"]

(***************************************************************************)
(* float64, exactly: the quotient of two counters is a finite n/d (d > 0), *)
(* +Inf (x/0, x > 0) or NaN (0/0). Counters are non-negative.              *)
(***************************************************************************)
Fin(n, d) == [k |-> "fin", n |-> n, d |-> d]
PosInf    == [k |-> "inf", n |-> 1, d |-> 0]
NaN       == [k |-> "nan", n |-> 0, d |-> 0]

\* float64(x) / float64(y)
Div(x, y) == IF y # 0 THEN Fin(x, y) ELSE IF x = 0 THEN NaN ELSE PosInf

\* math.IsNaN
IsNaN(q) == q.k = "nan"

\* a > b for float64: false when either is NaN, +Inf above every finite value
\* (the quotients of the small counters met here are either equal to 7/10 or
\* further from it than float64 rounding, so the exact comparison is the
\* float64 comparison)
Greater(a, b) ==
    /\ a.k # "nan" /\ b.k # "nan"
    /\ \/ a.k = "inf" /\ b.k = "fin"
       \/ a.k = "fin" /\ b.k = "fin" /\ a.n * b.d > b.n * a.d

fileTokThresh == Fin(7, 10)

\* divideSentinel without the NaN test
divideNoSentinel(x, y, sentinel) == Div(x, y)

divideSentinel(x, y, sentinel) ==
    LET q == Div(x, y)
    IN  IF IsNaN(q) THEN sentinel ELSE q

(***************************************************************************)
(* Option values: nil is <<>>, a value v is <<v>>                          *)
(***************************************************************************)
Nil == <<>>
Some(v) == <<v>>

NoMap == [x \in {} |-> x]

(***************************************************************************)
(* The tree walk (coverage, the filepath.Walk callback)                    *)
(***************************************************************************)
\* What the callback does with one visited path: the value it returns
\* ("nil", "SkipDir" or the read error) and the inventory afterwards.
WalkFn(abs, inventory) ==
    LET info == fs[abs]
        rel  == IF IsAbs(abs) THEN Rel(RootDir, abs) ELSE abs
    IN  IF info.isDir
        THEN [ret |-> IF HasPrefix(BaseName(abs), ".") THEN "SkipDir" ELSE "nil",
              inv |-> inventory]
        ELSE LET path == ToSlash(rel)
                 ext  == Ext(path)
             IN  IF ext \in DOMAIN extToLang
                 THEN IF ~info.readable
                      THEN [ret |-> "ReadFileError", inv |-> inventory]
                      ELSE [ret |-> "nil",
                            inv |-> (path :> [LoC          |-> numLines(info.bytes),
                                              NumRefs      |-> 0,
                                              NumDefs      |-> 0,
                                              NumRefsValid |-> 0,
                                              Language     |-> extToLang[ext]])
                                    @@ inventory]
                 ELSE [ret |-> "nil", inv |-> inventory]

\* filepath.Walk visits one path: the callback runs; a directory that was not
\* skipped has its sorted entries visited next, depth first; an error other
\* than SkipDir on a directory ends the walk.
WalkStep ==
    /\ pc = "walk"
    /\ todo # <<>>
    /\ LET abs == Head(todo)
           r   == WalkFn(abs, codeFileData)
       IN  /\ codeFileData' = r.inv
           /\ IF r.ret = "nil"
              THEN /\ todo' = (IF fs[abs].isDir
                               THEN [i \in 1..Len(fs[abs].names) |->
                                        Join(abs, fs[abs].names[i])]
                               ELSE <<>>) \o Tail(todo)
                   /\ UNCHANGED walkErr
              ELSE IF r.ret = "SkipDir"
              THEN /\ todo' = Tail(todo)
                   /\ UNCHANGED walkErr
              ELSE /\ todo' = <<>>
                   /\ walkErr' = r.ret
    /\ UNCHANGED <<pc, ruleIdx, visited, data, loaded, defKeys, warnings,
                   foldItem, foldRef, validRefs, stats, retCov, retErr>>
    /\ UNCHANGED <<linesVars, envVars, repoVars>>

\* filepath.Walk has returned; its error is not looked at. Then
\* GetBuildDataFS, config.ReadCached and plan.CreateMakefile each either
\* succeed or make coverage return (nil, err).
SetupOutcomes == {"nil", "GetBuildDataFS", "config.ReadCached", "plan.Makefile"}

Setup ==
    /\ pc = "walk"
    /\ todo = <<>>
    /\ \E e \in SetupOutcomes :
          IF e = "nil"
          THEN pc' = "load" /\ UNCHANGED <<retCov, retErr>>
          ELSE pc' = "done" /\ retCov' = Nil /\ retErr' = e
    /\ UNCHANGED <<todo, walkErr, codeFileData, ruleIdx, visited, data, loaded,
                   defKeys, warnings, foldItem, foldRef, validRefs, stats>>
    /\ UNCHANGED <<linesVars, envVars, repoVars>>

(***************************************************************************)
(* Graph data: keys, references, artifacts                                 *)
(***************************************************************************)
\* adjustDefKey without the two fill-in tests
adjustDefKeyNoFill(key, unit) ==
    [Repo |-> "", UnitType |-> key.UnitType, Unit |-> key.Unit, Path |-> key.Path]

\* adjustDefKey: Repo cleared, empty UnitType / Unit filled from the unit
adjustDefKey(key, unit) ==
    [Repo     |-> "",
     UnitType |-> IF key.UnitType = "" THEN unit.Type ELSE key.UnitType,
     Unit     |-> IF key.Unit = "" THEN unit.Name ELSE key.Unit,
     Path     |-> key.Path]

\* graph.Ref.DefKey(): the key made of the reference's four Def* fields
RefDefKey(ref) ==
    [Repo     |-> ref.DefRepo,
     UnitType |-> ref.DefUnitType,
     Unit     |-> ref.DefUnit,
     Path     |-> ref.DefPath]

\* graph.Ref.SetFromDefKey(k): the reference's four Def* fields set from k
SetFromDefKey(ref, k) ==
    [ref EXCEPT !.DefRepo = k.Repo, !.DefUnitType = k.UnitType,
                !.DefUnit = k.Unit, !.DefPath = k.Path]

EmptyOutput == [Defs |-> <<>>, Refs |-> <<>>]

\* the sentinel parseGraphData compares a read error with
errEmptyJSONFile == "errEmptyJSONFile"

\* os.IsNotExist
IsNotExist(err) == err = "ErrNotExist"

\* readJSONFileFS: Open fails on an absent file; json Decode of a file of zero
\* bytes returns io.EOF, of malformed bytes a syntax error, otherwise the value
\* (Close succeeds).
readJSONFileFS(fsys, file) ==
    LET f == fsys[file]
    IN  CASE f.state = "absent"    -> [err |-> "ErrNotExist", v |-> EmptyOutput]
          [] f.state = "empty"     -> [err |-> "EOF",         v |-> EmptyOutput]
          [] f.state = "malformed" -> [err |-> "SyntaxError", v |-> EmptyOutput]
          [] f.state = "json"      -> [err |-> "nil",         v |-> f.out]

\* parseGraphData(graphFile, sourceUnit): the error it returns and what it
\* leaves in data, defKeys and the log (loaded is the history of data).
parseGraphData(graphFile, sourceUnit) ==
    LET r    == readJSONFileFS(bdfs, graphFile)
        same == [err |-> "nil", data |-> data, loaded |-> loaded,
                 defKeys |-> defKeys, warnings |-> warnings]
    IN  IF r.err # "nil"
        THEN IF r.err = errEmptyJSONFile
             THEN [same EXCEPT !.warnings = @ \cup {<<"empty JSON file", sourceUnit>>}]
             ELSE IF IsNotExist(r.err)
             THEN [same EXCEPT !.warnings = @ \cup {<<"no build data", sourceUnit>>}]
             ELSE [same EXCEPT !.err = r.err]
        ELSE LET item == r.v
                 keys == {adjustDefKey(item.Defs[i].DefKey, sourceUnit) :
                             i \in 1..Len(item.Defs)}
                 refs == [i \in 1..Len(item.Refs) |->
                             SetFromDefKey(item.Refs[i],
                                 adjustDefKey(RefDefKey(item.Refs[i]), sourceUnit))]
             IN  [same EXCEPT !.data    = Append(@, [item EXCEPT !.Refs = refs]),
                              !.loaded  = Append(@, graphFile),
                              !.defKeys = @ \cup keys]

\* a *grapher.GraphUnitRule: one target, one unit
LoadUnitRule ==
    /\ pc = "load"
    /\ ruleIdx <= Len(rules)
    /\ rules[ruleIdx].kind = "GraphUnitRule"
    /\ LET r == parseGraphData(rules[ruleIdx].target, rules[ruleIdx].unit)
       IN  /\ data' = r.data
           /\ loaded' = r.loaded
           /\ defKeys' = r.defKeys
           /\ warnings' = r.warnings
           /\ IF r.err # "nil"
              THEN pc' = "done" /\ retCov' = Nil /\ retErr' = r.err
                   /\ UNCHANGED ruleIdx
              ELSE ruleIdx' = ruleIdx + 1 /\ UNCHANGED <<pc, retCov, retErr>>
    /\ UNCHANGED <<todo, walkErr, codeFileData, visited, foldItem, foldRef,
                   validRefs, stats>>
    /\ UNCHANGED <<linesVars, envVars, repoVars>>

\* a *grapher.GraphMultiUnitsRule: range over the map rule.Targets(), whose
\* iteration order is not fixed; one target per step
LoadMultiTarget ==
    /\ pc = "load"
    /\ ruleIdx <= Len(rules)
    /\ rules[ruleIdx].kind = "GraphMultiUnitsRule"
    /\ \E target \in DOMAIN rules[ruleIdx].targets \ visited :
          LET r == parseGraphData(target, rules[ruleIdx].targets[target])
          IN  /\ data' = r.data
              /\ loaded' = r.loaded
              /\ defKeys' = r.defKeys
              /\ warnings' = r.warnings
              /\ IF r.err # "nil"
                 THEN pc' = "done" /\ retCov' = Nil /\ retErr' = r.err
                      /\ UNCHANGED <<ruleIdx, visited>>
                 ELSE /\ IF visited \cup {target} = DOMAIN rules[ruleIdx].targets
                         THEN ruleIdx' = ruleIdx + 1 /\ visited' = {}
                         ELSE visited' = visited \cup {target} /\ UNCHANGED ruleIdx
                      /\ UNCHANGED <<pc, retCov, retErr>>
    /\ UNCHANGED <<todo, walkErr, codeFileData, foldItem, foldRef, validRefs, stats>>
    /\ UNCHANGED <<linesVars, envVars, repoVars>>

\* any other rule (or a multi-unit rule with no targets) loads nothing
SkipRule ==
    /\ pc = "load"
    /\ ruleIdx <= Len(rules)
    /\ IF rules[ruleIdx].kind = "GraphMultiUnitsRule"
       THEN DOMAIN rules[ruleIdx].targets = {}
       ELSE rules[ruleIdx].kind # "GraphUnitRule"
    /\ ruleIdx' = ruleIdx + 1
    /\ UNCHANGED <<pc, todo, walkErr, codeFileData, visited, data, loaded, defKeys,
                   warnings, foldItem, foldRef, validRefs, stats, retCov, retErr>>
    /\ UNCHANGED <<linesVars, envVars, repoVars>>

\* the loop over mf.Rules is over: the fold over data begins
EndLoad ==
    /\ pc = "load"
    /\ ruleIdx > Len(rules)
    /\ pc' = "fold"
    /\ foldItem' = 1
    /\ foldRef' = 1
    /\ validRefs' = <<>>
    /\ UNCHANGED <<todo, walkErr, codeFileData, ruleIdx, visited, data, loaded,
                   defKeys, warnings, stats, retCov, retErr>>
    /\ UNCHANGED <<linesVars, envVars, repoVars>>

(***************************************************************************)
(* The fold of references and definitions into the inventory               *)
(***************************************************************************)
\* the test that appends a reference to validRefs
RefIsValid(ref, keys) ==
    IF ref.DefRepo # "" THEN TRUE ELSE RefDefKey(ref) \in keys

\* one iteration of the loop over item.Refs
FoldRef ==
    /\ pc = "fold"
    /\ foldItem <= Len(data)
    /\ foldRef <= Len(data[foldItem].Refs)
    /\ LET ref == data[foldItem].Refs[foldRef]
       IN  IF ref.File \in DOMAIN codeFileData
           THEN IF RefIsValid(ref, defKeys)
                THEN /\ validRefs' = Append(validRefs, foldRef)
                     /\ codeFileData' =
                           [codeFileData EXCEPT ![ref.File].NumRefs = @ + 1,
                                                ![ref.File].NumRefsValid = @ + 1]
                ELSE /\ codeFileData' =
                           [codeFileData EXCEPT ![ref.File].NumRefs = @ + 1]
                     /\ UNCHANGED validRefs
           ELSE UNCHANGED <<codeFileData, validRefs>>
    /\ foldRef' = foldRef + 1
    /\ UNCHANGED <<pc, todo, walkErr, ruleIdx, visited, data, loaded, defKeys,
                   warnings, foldItem, stats, retCov, retErr>>
    /\ UNCHANGED <<linesVars, envVars, repoVars>>

\* the loop over item.Defs, from definition i on
RECURSIVE CountDefs(_, _, _)
CountDefs(defs, i, inventory) ==
    IF i > Len(defs) THEN inventory
    ELSE CountDefs(defs, i + 1,
                   IF defs[i].File \in DOMAIN inventory
                   THEN [inventory EXCEPT ![defs[i].File].NumDefs = @ + 1]
                   ELSE inventory)

\* the references of the item are done: its definitions, then the next item
FoldDefs ==
    /\ pc = "fold"
    /\ foldItem <= Len(data)
    /\ foldRef > Len(data[foldItem].Refs)
    /\ codeFileData' = CountDefs(data[foldItem].Defs, 1, codeFileData)
    /\ foldItem' = foldItem + 1
    /\ foldRef' = 1
    /\ validRefs' = <<>>
    /\ UNCHANGED <<pc, todo, walkErr, ruleIdx, visited, data, loaded, defKeys,
                   warnings, stats, retCov, retErr>>
    /\ UNCHANGED <<linesVars, envVars, repoVars>>

(***************************************************************************)
(* The per-language reduction                                              *)
(***************************************************************************)
ZeroStats == [numFiles |-> 0, numIndexedFiles |-> 0, numDefs |-> 0, numRefs |-> 0,
              numRefsValid |-> 0, uncoveredFiles |-> <<>>, loc |-> 0]

\* the per-file decision
FileIsCovered(datum) ==
    Greater(Div(datum.NumDefs + datum.NumRefsValid, datum.LoC), fileTokThresh)

\* the body of the loop over codeFileData for one file
AddFile(st, file, datum) ==
    LET s0 == IF datum.Language \in DOMAIN st THEN st[datum.Language] ELSE ZeroStats
        s1 == [s0 EXCEPT !.numFiles = @ + 1,
                         !.loc = @ + datum.LoC,
                         !.numDefs = @ + datum.NumDefs,
                         !.numRefs = @ + datum.NumRefs,
                         !.numRefsValid = @ + datum.NumRefsValid]
        s2 == IF FileIsCovered(datum)
              THEN [s1 EXCEPT !.numIndexedFiles = @ + 1]
              ELSE [s1 EXCEPT !.uncoveredFiles = Append(@, file)]
    IN  (datum.Language :> s2) @@ st

\* the loop over codeFileData in the order `order`, from its i-th file on
RECURSIVE StatsOver(_, _, _, _)
StatsOver(order, i, inventory, st) ==
    IF i > Len(order) THEN st
    ELSE StatsOver(order, i + 1, inventory, AddFile(st, order[i], inventory[order[i]]))

\* the coverage record of one language
LangCoverage(s) ==
    [FileScore      |-> divideSentinel(s.numIndexedFiles, s.numFiles, Fin(-1, 1)),
     RefScore       |-> divideSentinel(s.numRefsValid, s.numRefs, Fin(-1, 1)),
     TokDensity     |-> divideSentinel(s.numDefs + s.numRefs, s.loc, Fin(-1, 1)),
     UncoveredFiles |-> s.uncoveredFiles]

\* the orders in which a range over a map with key set S may visit it
Orders(S) ==
    {o \in [1..Cardinality(S) -> S] : \A i, j \in 1..Cardinality(S) : o[i] = o[j] => i = j}

\* the fold is over: per-language statistics (the range over the map
\* codeFileData visits the files in any order), the coverage records, return
Reduce ==
    /\ pc = "fold"
    /\ foldItem > Len(data)
    /\ \E order \in Orders(DOMAIN codeFileData) :
          LET st == StatsOver(order, 1, codeFileData, NoMap)
          IN  /\ stats' = st
              /\ retCov' = Some([lang \in DOMAIN st |-> LangCoverage(st[lang])])
    /\ retErr' = "nil"
    /\ pc' = "done"
    /\ UNCHANGED <<todo, walkErr, codeFileData, ruleIdx, visited, data, loaded,
                   defKeys, warnings, foldItem, foldRef, validRefs>>
    /\ UNCHANGED <<linesVars, envVars, repoVars>>

(***************************************************************************)
(* openLocalRepo (src/repo_opt.go): the cached repository of the current   *)
(* directory                                                               *)
(***************************************************************************)
\* the number of openLocalRepo calls explored
MaxCalls == 3

\* what OpenRepo(".") can return: a repository and no error, or no repository
\* and an error; which one depends on the working directory
OpenRepoOutcomes ==
    {[repo |-> "repoA", err |-> "nil"],
     [repo |-> "repoB", err |-> "nil"],
     [repo |-> "nil", err |-> "not a directory"]}

\* the test guarding the only OpenRepo call of the cached path, without its
\* localRepoErr half
NotOpenedRepoOnly(repo, err) == repo = "nil"

\* localRepo == nil && localRepoErr == nil
NotOpened(repo, err) == repo = "nil" /\ err = "nil"

\* openLocalRepo: the pair returned, the cache afterwards, and whether
\* OpenRepo was invoked
openLocalRepo(cache, repo, err, now) ==
    IF ~cache
    THEN [ret |-> now, localRepo |-> repo, localRepoErr |-> err, opened |-> TRUE]
    ELSE IF NotOpened(repo, err)
    THEN [ret |-> now, localRepo |-> now.repo, localRepoErr |-> now.err, opened |-> TRUE]
    ELSE [ret |-> [repo |-> repo, err |-> err],
          localRepo |-> repo, localRepoErr |-> err, opened |-> FALSE]

\* the package variables as declared, before any call
InitRepoVars ==
    /\ localRepo = "nil"
    /\ localRepoErr = "nil"
    /\ CacheLocalRepo = TRUE
    /\ calls = 0
    /\ opens = 0
    /\ firstRet = <<>>
    /\ lastRet = <<>>
    /\ everUncached = FALSE

\* one call of openLocalRepo (by setDefaultRepoURIOpt, setDefaultCommitIDOpt,
\* setDefaultRepoSubdirOpt or any other caller)
CallOpenLocalRepo ==
    /\ calls < MaxCalls
    /\ LET r == openLocalRepo(CacheLocalRepo, localRepo, localRepoErr, openNow)
       IN  /\ localRepo' = r.localRepo
           /\ localRepoErr' = r.localRepoErr
           /\ lastRet' = <<r.ret>>
           /\ firstRet' = IF calls = 0 THEN <<r.ret>> ELSE firstRet
           /\ opens' = IF r.opened THEN opens + 1 ELSE opens
    /\ calls' = calls + 1
    /\ UNCHANGED <<CacheLocalRepo, openNow, everUncached>>
    /\ UNCHANGED <<linesVars, envVars, covVars>>

\* the working directory changes (os.Chdir): OpenRepo(".") would now return
\* something else
Chdir ==
    /\ \E o \in OpenRepoOutcomes \ {openNow} : openNow' = o
    /\ UNCHANGED <<localRepo, localRepoErr, CacheLocalRepo, calls, opens,
                   firstRet, lastRet, everUncached>>
    /\ UNCHANGED <<linesVars, envVars, covVars>>

\* a caller assigns the exported variable CacheLocalRepo
SetCacheLocalRepo ==
    /\ CacheLocalRepo' = ~CacheLocalRepo
    /\ everUncached' = TRUE
    /\ UNCHANGED <<localRepo, localRepoErr, openNow, calls, opens, firstRet, lastRet>>
    /\ UNCHANGED <<linesVars, envVars, covVars>>

(***************************************************************************)
(* The environments explored                                               *)
(***************************************************************************)
\* bounds on the graph data of one run: definitions and references, summed
\* over the plan's artifacts
MaxDefs == 1
MaxRefs == 2

\* source units
UnitA == [Type |-> "GoPackage", Name |-> "A"]
UnitB == [Type |-> "GoPackage", Name |-> "B"]
UnitC == [Type |-> "PipPackage", Name |-> "C"]

Targets == {"A.graph.json", "B.graph.json", "C.graph.json"}

UnitRule(target, unit) ==
    [kind |-> "GraphUnitRule", target |-> target, unit |-> unit, targets |-> NoMap]
MultiRule(targets) ==
    [kind |-> "GraphMultiUnitsRule", target |-> "", unit |-> UnitA, targets |-> targets]
OtherRule ==
    [kind |-> "ResolveDepsRule", target |-> "", unit |-> UnitA, targets |-> NoMap]

\* the plans: a single-unit rule before or after a multi-unit rule
UnitsBC == MultiRule(("B.graph.json" :> UnitB) @@ ("C.graph.json" :> UnitC))
PlanUnitFirst == <<UnitRule("A.graph.json", UnitA), OtherRule, UnitsBC>>
PlanUnitLast  == <<UnitsBC, UnitRule("A.graph.json", UnitA)>>
Plans == {PlanUnitFirst, PlanUnitLast}

\* definitions an artifact may hold: one with an implicit unit, one that names
\* unit A (and a repository) and lies in the Python file
DefImplicit ==
    [DefKey |-> [Repo |-> "", UnitType |-> "", Unit |-> "", Path |-> "p"],
     File |-> "m.go"]
DefOfA ==
    [DefKey |-> [Repo |-> "r", UnitType |-> "GoPackage", Unit |-> "A", Path |-> "p"],
     File |-> "z.py"]
DefPool == {DefImplicit, DefOfA}

\* references an artifact may hold: to p of the own unit, to p of unit A, and
\* to a definition of another repository
RefImplicit ==
    [DefRepo |-> "", DefUnitType |-> "", DefUnit |-> "", DefPath |-> "p", File |-> "m.go"]
RefToA ==
    [DefRepo |-> "", DefUnitType |-> "GoPackage", DefUnit |-> "A", DefPath |-> "p",
     File |-> "lib/b.go"]
RefExternal ==
    [DefRepo |-> "ext", DefUnitType |-> "GoPackage", DefUnit |-> "X", DefPath |-> "q",
     File |-> "lib/b.go"]
RefPool == {RefImplicit, RefToA, RefExternal}

Absent    == [state |-> "absent", out |-> EmptyOutput]
Empty     == [state |-> "empty", out |-> EmptyOutput]
Malformed == [state |-> "malformed", out |-> EmptyOutput]
Json(out) == [state |-> "json", out |-> out]

\* the states of an artifact file that decodes to nd definitions and nr
\* references; a file that does not decode holds none
FileStates(nd, nr) ==
    {Json([Defs |-> ds, Refs |-> rs]) : ds \in [1..nd -> DefPool], rs \in [1..nr -> RefPool]}
    \cup (IF nd + nr = 0 THEN {Absent, Empty, Malformed} ELSE {})

\* the contents a source file may have: no bytes, a comment line and a code
\* line, two code lines
FileContents == {"", "//a\na", "a\na\n"}

Readable(bytes) == [isDir |-> FALSE, names |-> <<>>, readable |-> TRUE, bytes |-> bytes]
Unreadable      == [isDir |-> FALSE, names |-> <<>>, readable |-> FALSE, bytes |-> ""]
Dir(names)      == [isDir |-> TRUE, names |-> names, readable |-> TRUE, bytes |-> ""]

FileNodes == {Readable(b) : b \in FileContents} \cup {Unreadable}

\* a tree: root/{dir/b.go, file, z.py}; each listing is in lexical order
\* (".git" and "lib" sort before "m.go" and "m.txt", these before "z.py")
Tree(root, dir, file, nb, nf, nz) ==
    (root :> Dir(<<dir, file, "z.py">>))
    @@ (Join(root, dir) :> Dir(<<"b.go">>))
    @@ (Join(Join(root, dir), "b.go") :> nb)
    @@ (Join(root, file) :> nf)
    @@ (Join(root, "z.py") :> nz)

\* coverage(repo) is entered: nothing walked, loaded or folded yet
InitCoverage ==
    /\ pc = "walk"
    /\ todo = <<RootDir>>
    /\ walkErr = "nil"
    /\ codeFileData = NoMap
    /\ ruleIdx = 1
    /\ visited = {}
    /\ data = <<>>
    /\ loaded = <<>>
    /\ defKeys = {}
    /\ warnings = {}
    /\ foldItem = 1
    /\ foldRef = 1
    /\ validRefs = <<>>
    /\ stats = NoMap
    /\ retCov = Nil
    /\ retErr = "nil"
    /\ content = ""
    /\ linesRet = <<>>
    /\ InitRepoVars
    /\ openNow = [repo |-> "repoA", err |-> "nil"]

\* any tree of the shape above, with one fixed set of artifacts
InitTrees ==
    /\ RootDir \in {"/w/repo", "/w/.repo"}
    /\ \E dir \in {".git", "lib"}, file \in {"m.go", "m.txt"}, nb, nf, nz \in FileNodes :
          fs = Tree(RootDir, dir, file, nb, nf, nz)
    /\ rules \in Plans
    /\ bdfs = ("A.graph.json" :> Json([Defs |-> <<DefImplicit>>, Refs |-> <<RefImplicit>>]))
              @@ ("B.graph.json" :> Json([Defs |-> <<DefOfA>>, Refs |-> <<RefToA>>]))
              @@ ("C.graph.json" :> Absent)

\* one fixed tree (m.go of 1 line, lib/b.go of 3, z.py of none), with any
\* artifacts within the bounds
InitGraphs ==
    /\ RootDir = "/w/repo"
    /\ fs = Tree(RootDir, "lib", "m.go", Readable("a\na\n"), Readable("//a\na"), Readable(""))
    /\ rules = PlanUnitFirst
    /\ \E nd \in [Targets -> 0..MaxDefs], nr \in [Targets -> 0..MaxRefs] :
          /\ nd["A.graph.json"] + nd["B.graph.json"] + nd["C.graph.json"] <= MaxDefs
          /\ nr["A.graph.json"] + nr["B.graph.json"] + nr["C.graph.json"] <= MaxRefs
          /\ \E a \in FileStates(nd["A.graph.json"], nr["A.graph.json"]),
                b \in FileStates(nd["B.graph.json"], nr["B.graph.json"]),
                c \in FileStates(nd["C.graph.json"], nr["C.graph.json"]) :
                bdfs = ("A.graph.json" :> a) @@ ("B.graph.json" :> b) @@ ("C.graph.json" :> c)

Init == (InitTrees \/ InitGraphs) /\ InitCoverage

Next ==
    \/ WalkStep
    \/ Setup
    \/ LoadUnitRule
    \/ LoadMultiTarget
    \/ SkipRule
    \/ EndLoad
    \/ FoldRef
    \/ FoldDefs
    \/ Reduce

Spec == Init /\ [][Next]_vars

(***************************************************************************)
(* The line counter as a specification: any content within the bound is    *)
(* handed to numLines once.                                                *)
(***************************************************************************)
InitLines ==
    /\ content \in Strings(MaxContentLen)
    /\ linesRet = <<>>
    /\ RootDir = "/w/repo"
    /\ fs = NoMap
    /\ rules = <<>>
    /\ bdfs = NoMap
    /\ pc = "idle"
    /\ todo = <<>>
    /\ walkErr = "nil"
    /\ codeFileData = NoMap
    /\ ruleIdx = 1
    /\ visited = {}
    /\ data = <<>>
    /\ loaded = <<>>
    /\ defKeys = {}
    /\ warnings = {}
    /\ foldItem = 1
    /\ foldRef = 1
    /\ validRefs = <<>>
    /\ stats = NoMap
    /\ retCov = Nil
    /\ retErr = "nil"
    /\ InitRepoVars
    /\ openNow = [repo |-> "repoA", err |-> "nil"]

NumLinesCall ==
    /\ linesRet = <<>>
    /\ linesRet' = <<numLines(content)>>
    /\ UNCHANGED <<content, envVars, covVars, repoVars>>

NextLines == NumLinesCall

SpecLines == InitLines /\ [][NextLines]_vars

(***************************************************************************)
(* openLocalRepo as a specification: calls, changes of the working         *)
(* directory and assignments of CacheLocalRepo, in any order.              *)
(***************************************************************************)
InitRepo ==
    /\ InitRepoVars
    /\ openNow \in OpenRepoOutcomes
    /\ content = ""
    /\ linesRet = <<>>
    /\ RootDir = "/w/repo"
    /\ fs = NoMap
    /\ rules = <<>>
    /\ bdfs = NoMap
    /\ pc = "idle"
    /\ todo = <<>>
    /\ walkErr = "nil"
    /\ codeFileData = NoMap
    /\ ruleIdx = 1
    /\ visited = {}
    /\ data = <<>>
    /\ loaded = <<>>
    /\ defKeys = {}
    /\ warnings = {}
    /\ foldItem = 1
    /\ foldRef = 1
    /\ validRefs = <<>>
    /\ stats = NoMap
    /\ retCov = Nil
    /\ retErr = "nil"

NextRepo ==
    \/ CallOpenLocalRepo
    \/ Chdir
    \/ SetCacheLocalRepo

SpecRepo == InitRepo /\ [][NextRepo]_vars


(***************************************************************************)
(* What the properties below are stated with (none of it models code)      *)
(***************************************************************************)
RECURSIVE SumOver(_, _)
SumOver(f, S) ==
    IF S = {} THEN 0
    ELSE LET x == CHOOSE y \in S : TRUE
         IN  f[x] + SumOver(f, S \ {x})

Range(seq) == {seq[i] : i \in 1..Len(seq)}

\* coverage has returned a mapping
Returned == pc = "done" /\ retErr = "nil" /\ retCov # Nil

\* the <<artifact path, owning unit>> pairs of the plan's graph rules
PlanArtifacts ==
    UNION {IF rules[i].kind = "GraphUnitRule"
           THEN {<<rules[i].target, rules[i].unit>>}
           ELSE IF rules[i].kind = "GraphMultiUnitsRule"
           THEN {<<t, rules[i].targets[t]>> : t \in DOMAIN rules[i].targets}
           ELSE {} : i \in 1..Len(rules)}

OwnerOf(target) == (CHOOSE a \in PlanArtifacts : a[1] = target)[2]

\* the artifacts of the plan that are present and decode
Decodable == {a \in PlanArtifacts : bdfs[a[1]].state = "json"}

\* a key as the specification normalizes it: no repository, an empty unit
\* type or unit name replaced by the owning unit's
Normalized(unitType, unitName, path, unit) ==
    <<IF unitType = "" THEN unit.Type ELSE unitType,
      IF unitName = "" THEN unit.Name ELSE unitName,
      path>>

DefNormalized(def, unit) ==
    Normalized(def.DefKey.UnitType, def.DefKey.Unit, def.DefKey.Path, unit)

RefNormalized(ref, unit) ==
    Normalized(ref.DefUnitType, ref.DefUnit, ref.DefPath, unit)

\* the normalized keys of the definitions of a set of artifacts
KeysOf(artifacts) ==
    UNION {{DefNormalized(bdfs[a[1]].out.Defs[i], a[2]) :
               i \in 1..Len(bdfs[a[1]].out.Defs)} : a \in artifacts}

\* the references and definitions of the decodable artifacts, as read
AllRefs == UNION {{<<a, j>> : j \in 1..Len(bdfs[a[1]].out.Refs)} : a \in Decodable}
AllDefs == UNION {{<<a, j>> : j \in 1..Len(bdfs[a[1]].out.Defs)} : a \in Decodable}

RefAt(r) == bdfs[r[1][1]].out.Refs[r[2]]
DefAt(d) == bdfs[d[1][1]].out.Defs[d[2]]

\* the reference as the artifact holds it, for data[i].Refs[j]
ArtifactRef(i, j) == bdfs[loaded[i]].out.Refs[j]

\* the files of a language in the inventory, and a counter summed over them
FilesOf(lang) == {f \in DOMAIN codeFileData : codeFileData[f].Language = lang}
TotalLoC(lang)  == SumOver([f \in DOMAIN codeFileData |-> codeFileData[f].LoC], FilesOf(lang))
TotalRefs(lang) == SumOver([f \in DOMAIN codeFileData |-> codeFileData[f].NumRefs], FilesOf(lang))

Sentinel == Fin(-1, 1)

(***************************************************************************)
(* C1                                                                      *)
(***************************************************************************)
\* C1: every reference of a loaded artifact whose file is in the inventory
\* and whose DefRepo is non-empty in the artifact is counted valid (it is
\* appended to validRefs and increments NumRefsValid), whatever the
\* definition keys are.
C1_DefRepoRefCountedValid ==
    (pc = "fold" /\ foldItem <= Len(data)) =>
        \A j \in 1..(foldRef - 1) :
            (/\ ArtifactRef(foldItem, j).DefRepo # ""
             /\ ArtifactRef(foldItem, j).File \in DOMAIN codeFileData)
            => j \in Range(validRefs)

(***************************************************************************)
(* C2                                                                      *)
(***************************************************************************)
\* C2: in the mapping returned, each of FileScore, RefScore and TokDensity is
\* the sentinel -1 whenever its denominator (files, references, lines of the
\* language) is zero, and no score is NaN or infinite.
C2_ZeroDenominatorGivesSentinel ==
    Returned =>
        \A lang \in DOMAIN retCov[1] :
            LET c == retCov[1][lang]
            IN  /\ (Cardinality(FilesOf(lang)) = 0 => c.FileScore = Sentinel)
                /\ (TotalRefs(lang) = 0 => c.RefScore = Sentinel)
                /\ (TotalLoC(lang) = 0 => c.TokDensity = Sentinel)
                /\ c.FileScore.k = "fin" /\ c.RefScore.k = "fin" /\ c.TokDensity.k = "fin"

(***************************************************************************)
(* C3                                                                      *)
(***************************************************************************)
\* the per-file decision as specified
SpecCovered(datum) ==
    datum.LoC > 0 /\ 10 * (datum.NumDefs + datum.NumRefsValid) > 7 * datum.LoC

\* C3: a file is judged covered iff LoC > 0 and (NumDefs + NumRefsValid) / LoC
\* > 0.7; a file of LoC 0 is listed as uncovered and does not count into its
\* language's numIndexedFiles.
C3_ZeroLocNeverCovered ==
    Returned =>
        \A f \in DOMAIN codeFileData :
            LET lang == codeFileData[f].Language
            IN  /\ (f \in Range(retCov[1][lang].UncoveredFiles))
                       <=> ~SpecCovered(codeFileData[f])
                /\ stats[lang].numIndexedFiles =
                       Cardinality({g \in FilesOf(lang) : SpecCovered(codeFileData[g])})

(***************************************************************************)
(* C4                                                                      *)
(***************************************************************************)
\* the lines of s: each starts at offset 0 or just after a newline and ends
\* before the next newline or at the end of s
LineStarts(s) == {0} \cup {i \in 1..Len(s) : At(s, i) = "\n"}
LineFrom(s, st) ==
    LET nl == {i \in (st + 1)..Len(s) : At(s, i) = "\n"}
    IN  Slice(s, st, IF nl = {} THEN Len(s) ELSE Min(nl) - 1)
NonBlankLines(s) ==
    Cardinality({st \in LineStarts(s) :
        \E i \in 1..Len(LineFrom(s, st)) : At(LineFrom(s, st), i) \notin {" ", "\n"}})

\* C4: the LoC numLines returns is the number of lines of the comment-stripped
\* content that hold a non-whitespace character, with or without a newline
\* after the last line.
C4_LocIsNonBlankLineCount ==
    linesRet # <<>> => linesRet[1] = NonBlankLines(stripComments(content))

(***************************************************************************)
(* C5                                                                      *)
(***************************************************************************)
\* C5: a reference with empty DefRepo whose file is in the inventory is
\* counted valid iff its normalized key is the normalized key of a definition
\* of some decodable artifact of the plan, wherever in the loading order that
\* artifact comes; and the per-file NumRefs, NumDefs and NumRefsValid returned
\* are the counts over all decodable artifacts, whatever the loading order
\* (the key test is also what decides a reference that names a repository).
C5_ValidityAgainstGlobalKeys ==
    /\ (pc = "fold" /\ foldItem <= Len(data)) =>
          \A j \in 1..(foldRef - 1) :
              LET r == ArtifactRef(foldItem, j)
              IN  (r.DefRepo = "" /\ r.File \in DOMAIN codeFileData) =>
                      (j \in Range(validRefs) <=>
                         RefNormalized(r, OwnerOf(loaded[foldItem])) \in KeysOf(Decodable))
    /\ Returned =>
          \A f \in DOMAIN codeFileData :
              /\ codeFileData[f].NumRefs =
                    Cardinality({r \in AllRefs : RefAt(r).File = f})
              /\ codeFileData[f].NumDefs =
                    Cardinality({d \in AllDefs : DefAt(d).File = f})
              /\ codeFileData[f].NumRefsValid =
                    Cardinality({r \in AllRefs :
                        /\ RefAt(r).File = f
                        /\ RefNormalized(RefAt(r), r[1][2]) \in KeysOf(Decodable)})

\* a mapping was returned in which a reference of one target of a multi-unit
\* rule was counted valid through a definition found only in a target of the
\* same rule that was loaded after it
C5_Witness ==
    /\ Returned
    /\ \E i, k \in 1..Len(loaded) :
          /\ i < k
          /\ \E n \in 1..Len(rules) :
                /\ rules[n].kind = "GraphMultiUnitsRule"
                /\ {loaded[i], loaded[k]} \subseteq DOMAIN rules[n].targets
          /\ \E j \in 1..Len(bdfs[loaded[i]].out.Refs) :
                LET r   == ArtifactRef(i, j)
                    key == RefNormalized(r, OwnerOf(loaded[i]))
                IN  /\ r.DefRepo = ""
                    /\ r.File \in DOMAIN codeFileData
                    /\ key \notin KeysOf({<<loaded[h], OwnerOf(loaded[h])>> : h \in 1..i})
                    /\ key \in KeysOf({<<loaded[k], OwnerOf(loaded[k])>>})
                    /\ codeFileData[r.File].NumRefsValid >= 1

(***************************************************************************)
(* C6                                                                      *)
(***************************************************************************)
\* C6: if reading a source file with a recognised extension fails during the
\* walk, coverage returns an error and no mapping.
C6_UnreadableFileAborts ==
    (pc = "done" /\ walkErr # "nil") => (retErr # "nil" /\ retCov = Nil)

(***************************************************************************)
(* C7                                                                      *)
(***************************************************************************)
SetupErrors == SetupOutcomes \ {"nil"}

\* C7: an artifact that is present but empty is not fatal: when the plan was
\* built and no artifact of the plan is malformed, coverage returns without
\* error, with the data of every decodable artifact loaded.
C7_EmptyArtifactNotFatal ==
    (/\ pc = "done"
     /\ retErr \notin SetupErrors
     /\ \E a \in PlanArtifacts : bdfs[a[1]].state = "empty"
     /\ \A a \in PlanArtifacts : bdfs[a[1]].state # "malformed")
    => (retErr = "nil" /\ Range(loaded) = {a[1] : a \in Decodable})

(***************************************************************************)
(* C8                                                                      *)
(***************************************************************************)
\* C8: once the plan is built, coverage returns an error only when some
\* artifact is neither missing nor empty nor decodable; otherwise every
\* decodable artifact, before or after a missing one, contributes all its
\* definitions and references and the others contribute nothing.
C8_MissingArtifactNotFatal ==
    (pc = "done" /\ retErr \notin SetupErrors) =>
        /\ retErr # "nil" =>
              \E a \in PlanArtifacts : bdfs[a[1]].state \notin {"absent", "empty", "json"}
        /\ retErr = "nil" =>
              /\ Range(loaded) = {a[1] : a \in Decodable}
              /\ Len(loaded) = Cardinality(Decodable)
              /\ \A i \in 1..Len(data) :
                    /\ data[i].Defs = bdfs[loaded[i]].out.Defs
                    /\ Len(data[i].Refs) = Len(bdfs[loaded[i]].out.Refs)
              /\ \A f \in DOMAIN codeFileData :
                    /\ codeFileData[f].NumRefs =
                          Cardinality({r \in AllRefs : RefAt(r).File = f})
                    /\ codeFileData[f].NumDefs =
                          Cardinality({d \in AllDefs : DefAt(d).File = f})

(***************************************************************************)
(* C9                                                                      *)
(***************************************************************************)
\* C9: NumRefsValid <= NumRefs for every file after every step, and in the
\* mapping returned each language's RefScore is the sentinel -1 if the
\* language's files have no references and a value in [0, 1] otherwise.
C9_RefScoreInUnitIntervalOrSentinel ==
    /\ \A f \in DOMAIN codeFileData :
          codeFileData[f].NumRefsValid <= codeFileData[f].NumRefs
    /\ Returned =>
          /\ DOMAIN retCov[1] = {codeFileData[f].Language : f \in DOMAIN codeFileData}
          /\ \A lang \in DOMAIN retCov[1] :
                LET q == retCov[1][lang].RefScore
                IN  IF TotalRefs(lang) = 0
                    THEN q = Sentinel
                    ELSE q.k = "fin" /\ q.d > 0 /\ 0 <= q.n /\ q.n <= q.d

\* a mapping was returned in which one language has a RefScore strictly
\* between 0 and 1 and another has the sentinel
C9_Witness ==
    /\ Returned
    /\ \E l1, l2 \in DOMAIN retCov[1] :
          /\ retCov[1][l1].RefScore.k = "fin"
          /\ 0 < retCov[1][l1].RefScore.n
          /\ retCov[1][l1].RefScore.n < retCov[1][l1].RefScore.d
          /\ TotalRefs(l2) = 0
          /\ retCov[1][l2].RefScore = Sentinel

(***************************************************************************)
(* C10                                                                     *)
(***************************************************************************)
\* the directories strictly between the root and path
DirsAbove(path) ==
    {d \in DOMAIN fs : d # RootDir /\ fs[d].isDir /\ HasPrefix(path, d \o "/")}

\* the files under the root with an extension of the language table and no
\* dot-named directory between the root and them, by root-relative path
VisibleCodeFiles ==
    {From(p, Len(RootDir) + 1) :
        p \in {q \in DOMAIN fs :
                  /\ ~fs[q].isDir
                  /\ Ext(q) \in DOMAIN extToLang
                  /\ \A d \in DirsAbove(q) : ~HasPrefix(BaseName(d), ".")}}

\* C10: when the walk ends without a read error, the inventory holds exactly
\* the files under the root that have an extension of the language table and
\* lie in no dot-named directory below the root.
C10_InventoryIsVisibleCodeFiles ==
    (pc \in {"load", "fold", "done"} /\ walkErr = "nil") =>
        DOMAIN codeFileData = VisibleCodeFiles

(***************************************************************************)
(* C11                                                                     *)
(***************************************************************************)
\* while CacheLocalRepo has stayed true: OpenRepo was invoked at most once,
\* exactly once if openLocalRepo was called, and the last call returned what
\* the first call returned, which is what the cache holds
C11_CachedOnce ==
    ~everUncached =>
        /\ opens <= 1
        /\ calls >= 1 =>
              /\ opens = 1
              /\ lastRet = firstRet
              /\ firstRet = <<[repo |-> localRepo, err |-> localRepoErr]>>

\* a call made with CacheLocalRepo false invokes OpenRepo, returns its
\* outcome and leaves localRepo and localRepoErr as they were
C11_UncachedStep ==
    (calls' = calls + 1 /\ ~CacheLocalRepo) =>
        /\ opens' = opens + 1
        /\ lastRet' = <<openNow>>
        /\ UNCHANGED <<localRepo, localRepoErr>>

\* C11: while CacheLocalRepo stays true, OpenRepo is invoked at most once over
\* any sequence of openLocalRepo calls and every later call returns the repo
\* and the error of the first call, whatever OpenRepo(".") would return now;
\* with CacheLocalRepo false each call invokes OpenRepo and leaves the cached
\* localRepo / localRepoErr unchanged.
C11_OpensOnceWhileCached == []C11_CachedOnce /\ [][C11_UncachedStep]_vars

\* CacheLocalRepo has stayed true, openLocalRepo has been called at least
\* twice, and the last call returned the first call's result although
\* OpenRepo(".") would now return something else
C11_Witness ==
    /\ ~everUncached
    /\ calls >= 2
    /\ opens = 1
    /\ lastRet = firstRet
    /\ lastRet # <<openNow>>

====
